---------------------------- MODULE Spec2Model ----------------------------
(***************************************************************************)
(* Model of the two Falcon 9 collectors:                                   *)
(*   falcon9_data_collection.py  (SpaceXDataExtractor, the API pipeline)   *)
(*   falcon9_data_wrangling.py   (Falcon9Scraper, the wiki pipeline)       *)
(* A behaviour is the life of one program: either one SpaceXDataExtractor  *)
(* instance driven by a straight-line caller (process_all_data and         *)
(* export_to_csv calls), or one Falcon9Scraper.run().                      *)
(*                                                                         *)
(* Python's Optional values are wrapped: None is <<>> and a present value  *)
(* x is <<x>>, so that "is None" and truthiness are decided as in Python.  *)
(***************************************************************************)
EXTENDS Integers, Sequences, FiniteSets, TLC

None == <<>>
Some(x) == <<x>>

\* Bounds of the model.
MaxListing == 2      \* entries in the primary listing
MaxRuns == 2         \* process_all_data calls on one instance
MaxRows == 2         \* data rows of the wiki table

\* limit_date default, datetime.date(2020, 11, 13), written YYYYMMDD
DefaultLimitDate == 20201113

VARIABLES
    program,          \* "api" | "wiki": which script this behaviour runs
    pc,               \* position of the caller / of process_all_data / of run
    exc,              \* the exception that escaped to the caller, "none" if none
    lastlog,          \* the last logging call: <<level, stage>>
    csv,              \* the output file: None, or Some(table written)
    \* ---- remote world (fixed during a behaviour)
    listing,          \* content served at SPACEX_LAUNCHES_URL
    page,             \* HTML document served at Falcon9Scraper.URL
    \* ---- SpaceXDataExtractor fields
    limit_date,
    booster_versions, payload_masses, orbits, launch_sites, outcomes,
    flights, grid_fins, reused_status, legs, landing_pads,
    block_numbers, reuse_counts, core_serials, longitudes, latitudes,
    raw_data, processed_data,
    \* ---- locals of process_all_data / history
    response,         \* what the last primary fetch_json returned
    runs,             \* process_all_data calls started
    lookups,          \* dependent fetch_json calls made so far
    \* ---- locals of Falcon9Scraper.run
    html_content, df_raw, df_clean

boosterVars == <<booster_versions>>
siteVars    == <<longitudes, latitudes, launch_sites>>
payloadVars == <<payload_masses, orbits>>
coreVars    == <<block_numbers, reuse_counts, core_serials, outcomes, flights,
                 grid_fins, reused_status, legs, landing_pads>>
accVars     == <<boosterVars, siteVars, payloadVars, coreVars>>
worldVars   == <<program, listing, page, limit_date>>
wikiVars    == <<html_content, df_raw, df_clean>>
apiVars     == <<accVars, raw_data, processed_data, response, runs, lookups>>
vars        == <<pc, exc, lastlog, csv, worldVars, apiVars, wikiVars>>

---------------------------------------------------------------------------
\* Generic helpers

SeqMap(F(_), s) == [i \in 1..Len(s) |-> F(s[i])]

RECURSIVE SumSeq(_)
SumSeq(s) == IF s = <<>> THEN 0 ELSE s[1] + SumSeq(Tail(s))

\* Python truthiness of an Optional[str] id: None and "" are falsy
Truthy(v) == v /= None /\ v[1] /= ""

---------------------------------------------------------------------------
\* The remote API world.  A URL is <<endpoint, id>>.

SPACEX_LAUNCHES_URL == <<"launches/past">>
LAUNCHPADS_URL == "launchpads/"
PAYLOADS_URL   == "payloads/"
ROCKETS_URL    == "rockets/"
CORES_URL      == "cores/"

\* Detail objects served by the API; any other id is stale (HTTP 404).
RemoteObjects ==
    [ u \in { <<ROCKETS_URL, "falcon1">>, <<ROCKETS_URL, "falcon9">>,
              <<ROCKETS_URL, "noname">>,
              <<LAUNCHPADS_URL, "kwajalein">>, <<LAUNCHPADS_URL, "ccsfs">>,
              <<PAYLOADS_URL, "falconsat">>, <<PAYLOADS_URL, "sxm7">>,
              <<PAYLOADS_URL, "nomass">>,
              <<CORES_URL, "merlin1a">>, <<CORES_URL, "b1051">>,
              <<CORES_URL, "b0003">> } |->
      CASE u = <<ROCKETS_URL, "falcon1">> -> [name |-> Some("Falcon 1")]
        [] u = <<ROCKETS_URL, "falcon9">> -> [name |-> Some("Falcon 9")]
        [] u = <<ROCKETS_URL, "noname">>  -> [name |-> None]
        [] u = <<LAUNCHPADS_URL, "kwajalein">> ->
             [name |-> Some("Kwajalein Atoll"), longitude |-> Some(167),
              latitude |-> Some(9)]
        [] u = <<LAUNCHPADS_URL, "ccsfs">> ->
             [name |-> Some("CCSFS SLC 40"), longitude |-> Some(-80),
              latitude |-> Some(28)]
        [] u = <<PAYLOADS_URL, "falconsat">> ->
             [mass_kg |-> Some(20), orbit |-> Some("LEO")]
        [] u = <<PAYLOADS_URL, "sxm7">> ->
             [mass_kg |-> Some(7000), orbit |-> Some("GTO")]
        [] u = <<PAYLOADS_URL, "nomass">> ->
             [mass_kg |-> None, orbit |-> Some("ISS")]
        [] u = <<CORES_URL, "merlin1a">> ->
             [block |-> None, reuse_count |-> Some(0), serial |-> Some("Merlin1A")]
        [] u = <<CORES_URL, "b1051">> ->
             [block |-> Some(5), reuse_count |-> Some(6), serial |-> Some("B1051")]
        [] u = <<CORES_URL, "b0003">> ->
             [block |-> Some(1), reuse_count |-> Some(0), serial |-> Some("B0003")] ]

\* fetch_json on a detail URL: the object, or None on a RequestException
fetch_json(url) ==
    IF url \in DOMAIN RemoteObjects THEN Some(RemoteObjects[url]) ELSE None

CoreUsage(core, flight, gridfins, reused, legsv, landpad, success, type) ==
    [core |-> core, flight |-> flight, gridfins |-> gridfins, reused |-> reused,
     legs |-> legsv, landpad |-> landpad, landing_success |-> success,
     landing_type |-> type]

Launch(rocket, payloads, launchpad, cores, fn, day, time) ==
    [rocket |-> rocket, payloads |-> payloads, launchpad |-> launchpad,
     cores |-> cores, flight_number |-> fn,
     date_utc |-> [day |-> day, time |-> time],
     name |-> "mission", upcoming |-> FALSE]

CuF1 == CoreUsage(Some("merlin1a"), Some(1), Some(FALSE), Some(FALSE),
                  Some(FALSE), None, None, None)
CuF9 == CoreUsage(Some("b1051"), Some(7), Some(TRUE), Some(TRUE), Some(TRUE),
                  Some("ocisly"), Some(TRUE), Some("ASDS"))
CuB0003 == CoreUsage(Some("b0003"), Some(1), Some(FALSE), Some(FALSE),
                     Some(FALSE), None, Some(FALSE), Some("Ocean"))
CuNoCore == CoreUsage(None, None, None, None, None, None, Some(FALSE), None)
CuStale == CoreUsage(Some("b9999"), Some(1), Some(TRUE), Some(FALSE),
                     Some(TRUE), Some("lz1"), None, Some("RTLS"))

\* Entries the primary listing is drawn from.
EntryPool ==
    { Launch(Some("falcon1"), <<Some("falconsat")>>, Some("kwajalein"),
             <<CuF1>>, 1, 20060324, "22:30"),
      Launch(Some("falcon9"), <<Some("sxm7")>>, Some("ccsfs"),
             <<CuF9>>, 2, 20201113, "23:59"),
      Launch(Some("falcon9"), <<Some("sxm7")>>, Some("ccsfs"),
             <<CuF9>>, 3, 20201114, "00:00"),
      Launch(Some("falcon9"), <<Some("sxm7"), Some("nomass")>>, Some("ccsfs"),
             <<CuF9>>, 4, 20100604, "18:45"),
      Launch(Some("falcon9"), <<Some("sxm7")>>, Some("ccsfs"),
             <<CuF9, CuStale>>, 5, 20100604, "18:45"),
      Launch(None, <<None>>, None, <<CuNoCore>>, 6, 20100604, "18:45"),
      Launch(Some("noname"), <<Some("nomass")>>, Some("vafb"),
             <<CuStale>>, 7, 20100605, "00:00"),
      Launch(Some("falcon9"), <<>>, Some("ccsfs"), <<>>, 8, 20100604, "18:45"),
      Launch(Some("retired"), <<Some("expired")>>, Some("kwajalein"),
             <<CuB0003>>, 9, 20100604, "18:45") }

RECURSIVE SeqsUpTo(_, _)
SeqsUpTo(S, n) ==
    IF n = 0 THEN {<<>>}
    ELSE LET shorter == SeqsUpTo(S, n - 1)
         IN  shorter \cup {Append(s, x) : s \in shorter, x \in S}

Listings == SeqsUpTo(EntryPool, MaxListing)
LimitDates == {DefaultLimitDate, 20100604}

---------------------------------------------------------------------------
\* SpaceXDataExtractor.fetch_launch_data

\* line 94: keep only the six required columns
ProjectColumns(e) ==
    [rocket |-> e.rocket, payloads |-> e.payloads, launchpad |-> e.launchpad,
     cores |-> e.cores, flight_number |-> e.flight_number,
     date_utc |-> e.date_utc]

\* lines 98-99: df['cores'].map(len) == 1, df['payloads'].map(len) == 1
SingleCore(r) == Len(r.cores) = 1
SinglePayload(r) == Len(r.payloads) = 1

\* lines 102-103: replace each singleton list by its element
Unwrap(r) == [r EXCEPT !.cores = r.cores[1], !.payloads = r.payloads[1]]

\* line 106: pd.to_datetime(date_utc).dt.date drops the time of day
ToDate(ts) == ts.day
AddDate(r) ==
    [rocket |-> r.rocket, payloads |-> r.payloads, launchpad |-> r.launchpad,
     cores |-> r.cores, flight_number |-> r.flight_number,
     date_utc |-> r.date_utc, date |-> ToDate(r.date_utc)]

\* line 107: df['date'] <= self.limit_date
DateKept(d, limit) == d <= limit

\* lines 90-109 on a non-empty listing; reset_index renumbers 1..n (0..n-1)
Normalize(resp, limit) ==
    LET df0 == SeqMap(ProjectColumns, resp)
        df1 == SelectSeq(df0, SingleCore)
        df2 == SelectSeq(df1, SinglePayload)
        df3 == SeqMap(Unwrap, df2)
        df4 == SeqMap(AddDate, df3)
    IN  SelectSeq(df4, LAMBDA r : DateKept(r.date, limit))

\* json_normalize([]) has no columns, so the column selection of line 94
\* raises KeyError
FetchRaises(resp) == resp /= None /\ resp[1] = <<>>

\* the value of self.raw_data when fetch_launch_data returns normally
RawDataAfterFetchReset(resp, old, limit) ==
    IF resp = None THEN None ELSE Some(Normalize(resp[1], limit))
RawDataAfterFetch(resp, old, limit) ==
    IF resp = None THEN old ELSE Some(Normalize(resp[1], limit))

\* process_all_data, line 211: self.fetch_launch_data()
FetchLaunchData ==
    /\ program = "api" /\ pc = "idle" /\ runs < MaxRuns
    /\ runs' = runs + 1
    /\ \E ok \in BOOLEAN : response' = IF ok THEN Some(listing) ELSE None
    /\ IF FetchRaises(response')
       THEN /\ pc' = "raised" /\ exc' = "KeyError"
            /\ lastlog' = <<"info", "columns">>
            /\ UNCHANGED raw_data
       ELSE /\ pc' = "fetched" /\ exc' = exc
            /\ raw_data' = RawDataAfterFetch(response', raw_data, limit_date)
            /\ lastlog' = IF response' = None
                          THEN <<"error", "launch data">>
                          ELSE <<"info", "columns">>
    /\ UNCHANGED <<csv, worldVars, accVars, processed_data, lookups, wikiVars>>

\* process_all_data, line 212
NoDataToProcessNoneOnly(raw) == raw = None
NoDataToProcess(raw) == raw = None \/ raw[1] = <<>>

\* process_all_data, lines 212-214
CheckRawData ==
    /\ program = "api" /\ pc = "fetched"
    /\ IF NoDataToProcess(raw_data)
       THEN pc' = "idle" /\ lastlog' = <<"error", "process">>
       ELSE pc' = "booster" /\ lastlog' = lastlog
    /\ UNCHANGED <<exc, csv, worldVars, apiVars, wikiVars>>

---------------------------------------------------------------------------
\* Dependent look-ups

\* number of fetch_json calls a loop makes: one per truthy id
Calls(ids) == SumSeq(SeqMap(LAMBDA v : IF Truthy(v) THEN 1 ELSE 0, ids))

\* response.get(key) after "if id: ... if response:", else None
Lookup(base, id) == IF Truthy(id) THEN fetch_json(<<base, id[1]>>) ELSE None

\* lines 160-169
BoosterVersionOfUnknown(r) ==
    LET resp == Lookup(ROCKETS_URL, r.rocket)
    IN  IF resp /= None THEN resp[1].name ELSE Some("Unknown")
BoosterVersionOf(r) ==
    LET resp == Lookup(ROCKETS_URL, r.rocket)
    IN  IF resp /= None THEN resp[1].name ELSE None

\* lines 117-132
SiteOf(r) ==
    LET resp == Lookup(LAUNCHPADS_URL, r.launchpad)
    IN  IF resp /= None
        THEN [longitude |-> resp[1].longitude, latitude |-> resp[1].latitude,
              name |-> resp[1].name]
        ELSE [longitude |-> None, latitude |-> None, name |-> None]

\* lines 140-152
PayloadOf(r) ==
    LET resp == Lookup(PAYLOADS_URL, r.payloads)
    IN  IF resp /= None
        THEN [mass_kg |-> resp[1].mass_kg, orbit |-> resp[1].orbit]
        ELSE [mass_kg |-> None, orbit |-> None]

\* lines 178-193
CoreOf(r) ==
    LET resp == Lookup(CORES_URL, r.cores.core)
    IN  IF resp /= None
        THEN [block |-> resp[1].block, reuse_count |-> resp[1].reuse_count,
              serial |-> resp[1].serial]
        ELSE [block |-> None, reuse_count |-> None, serial |-> None]

\* str() of an Optional[bool] / Optional[str] inside the f-string of line 197
PyStrBool(v) == IF v = None THEN "None" ELSE IF v[1] THEN "True" ELSE "False"
PyStrStr(v) == IF v = None THEN "None" ELSE v[1]
\* line 197
OutcomeOf(ci) == PyStrBool(ci.landing_success) \o " " \o PyStrStr(ci.landing_type)

\* get_booster_version_data, lines 154-169
GetBoosterVersionData ==
    /\ program = "api" /\ pc = "booster"
    /\ IF raw_data = None
       THEN /\ lastlog' = <<"error", "booster versions">>
            /\ UNCHANGED <<boosterVars, lookups>>
       ELSE /\ booster_versions' =
                 booster_versions \o SeqMap(BoosterVersionOf, raw_data[1])
            /\ lookups' = lookups + Calls(SeqMap(LAMBDA r : r.rocket, raw_data[1]))
            /\ lastlog' = lastlog
    /\ pc' = "site"
    /\ UNCHANGED <<exc, csv, worldVars, siteVars, payloadVars, coreVars,
                   raw_data, processed_data, response, runs, wikiVars>>

\* get_launch_site_data, lines 111-132
GetLaunchSiteData ==
    /\ program = "api" /\ pc = "site"
    /\ IF raw_data = None
       THEN /\ lastlog' = <<"error", "launch sites">>
            /\ UNCHANGED <<siteVars, lookups>>
       ELSE /\ longitudes' =
                 longitudes \o SeqMap(LAMBDA r : SiteOf(r).longitude, raw_data[1])
            /\ latitudes' =
                 latitudes \o SeqMap(LAMBDA r : SiteOf(r).latitude, raw_data[1])
            /\ launch_sites' =
                 launch_sites \o SeqMap(LAMBDA r : SiteOf(r).name, raw_data[1])
            /\ lookups' = lookups + Calls(SeqMap(LAMBDA r : r.launchpad, raw_data[1]))
            /\ lastlog' = lastlog
    /\ pc' = "payload"
    /\ UNCHANGED <<exc, csv, worldVars, boosterVars, payloadVars, coreVars,
                   raw_data, processed_data, response, runs, wikiVars>>

\* get_payload_data, lines 134-152
GetPayloadData ==
    /\ program = "api" /\ pc = "payload"
    /\ IF raw_data = None
       THEN /\ lastlog' = <<"error", "payloads">>
            /\ UNCHANGED <<payloadVars, lookups>>
       ELSE /\ payload_masses' =
                 payload_masses \o SeqMap(LAMBDA r : PayloadOf(r).mass_kg, raw_data[1])
            /\ orbits' = orbits \o SeqMap(LAMBDA r : PayloadOf(r).orbit, raw_data[1])
            /\ lookups' = lookups + Calls(SeqMap(LAMBDA r : r.payloads, raw_data[1]))
            /\ lastlog' = lastlog
    /\ pc' = "core"
    /\ UNCHANGED <<exc, csv, worldVars, boosterVars, siteVars, coreVars,
                   raw_data, processed_data, response, runs, wikiVars>>

\* get_core_data, lines 171-202
GetCoreData ==
    /\ program = "api" /\ pc = "core"
    /\ IF raw_data = None
       THEN /\ lastlog' = <<"error", "core information">>
            /\ UNCHANGED <<coreVars, lookups>>
       ELSE LET raw == raw_data[1] IN
            /\ block_numbers' = block_numbers \o SeqMap(LAMBDA r : CoreOf(r).block, raw)
            /\ reuse_counts' =
                 reuse_counts \o SeqMap(LAMBDA r : CoreOf(r).reuse_count, raw)
            /\ core_serials' = core_serials \o SeqMap(LAMBDA r : CoreOf(r).serial, raw)
            /\ outcomes' = outcomes \o SeqMap(LAMBDA r : OutcomeOf(r.cores), raw)
            /\ flights' = flights \o SeqMap(LAMBDA r : r.cores.flight, raw)
            /\ grid_fins' = grid_fins \o SeqMap(LAMBDA r : r.cores.gridfins, raw)
            /\ reused_status' = reused_status \o SeqMap(LAMBDA r : r.cores.reused, raw)
            /\ legs' = legs \o SeqMap(LAMBDA r : r.cores.legs, raw)
            /\ landing_pads' = landing_pads \o SeqMap(LAMBDA r : r.cores.landpad, raw)
            /\ lookups' = lookups + Calls(SeqMap(LAMBDA r : r.cores.core, raw))
            /\ lastlog' = lastlog
    /\ pc' = "assemble"
    /\ UNCHANGED <<exc, csv, worldVars, boosterVars, siteVars, payloadVars,
                   raw_data, processed_data, response, runs, wikiVars>>

---------------------------------------------------------------------------
\* SpaceXDataExtractor._create_dataframe

AccLengths ==
    { Len(booster_versions), Len(payload_masses), Len(orbits), Len(launch_sites),
      Len(outcomes), Len(flights), Len(grid_fins), Len(reused_status), Len(legs),
      Len(landing_pads), Len(block_numbers), Len(reuse_counts),
      Len(core_serials), Len(longitudes), Len(latitudes) }

\* pd.DataFrame(dict of lists) raises ValueError unless all lists have one length
SameLength == AccLengths \cup {Len(raw_data[1])} = {Len(raw_data[1])}

\* lines 228-247: row i of the assembled frame
LaunchRow(i) ==
    [FlightNumber |-> raw_data[1][i].flight_number,
     Date |-> raw_data[1][i].date_utc,
     BoosterVersion |-> booster_versions[i],
     PayloadMass |-> payload_masses[i],
     Orbit |-> orbits[i],
     LaunchSite |-> launch_sites[i],
     Outcome |-> outcomes[i],
     Flights |-> flights[i],
     GridFins |-> grid_fins[i],
     Reused |-> reused_status[i],
     Legs |-> legs[i],
     LandingPad |-> landing_pads[i],
     Block |-> block_numbers[i],
     ReusedCount |-> reuse_counts[i],
     Serial |-> core_serials[i],
     Longitude |-> longitudes[i],
     Latitude |-> latitudes[i]]

\* line 248: df['BoosterVersion'] != 'Falcon 1' (None != 'Falcon 1' is True)
NotFalcon1DropsNull(row) ==
    row.BoosterVersion /= None /\ row.BoosterVersion /= Some("Falcon 1")
NotFalcon1(row) == row.BoosterVersion /= Some("Falcon 1")

\* lines 228-247: the frame before the filter
AssembledReversed ==
    [i \in 1..Len(raw_data[1]) |-> LaunchRow(Len(raw_data[1]) + 1 - i)]
Assembled == [i \in 1..Len(raw_data[1]) |-> LaunchRow(i)]

\* _create_dataframe, lines 222-248
CreateDataframe ==
    /\ program = "api" /\ pc = "assemble"
    /\ IF SameLength
       THEN /\ processed_data' = Some(SelectSeq(Assembled, NotFalcon1))
            /\ pc' = "idle" /\ exc' = exc
       ELSE /\ pc' = "raised" /\ exc' = "ValueError"
            /\ UNCHANGED processed_data
    /\ UNCHANGED <<lastlog, csv, worldVars, accVars, raw_data, response, runs,
                   lookups, wikiVars>>

\* export_to_csv, lines 250-261; to_csv raises OSError on an unwritable path
ExportToCsv ==
    /\ program = "api" /\ pc = "idle"
    /\ IF processed_data /= None
       THEN \E writable \in BOOLEAN :
              IF writable
              THEN /\ csv' = Some(processed_data[1])
                   /\ lastlog' = <<"info", "exported">>
                   /\ pc' = "idle" /\ exc' = exc
              ELSE /\ pc' = "raised" /\ exc' = "OSError"
                   /\ UNCHANGED <<csv, lastlog>>
       ELSE /\ lastlog' = <<"error", "no processed data">>
            /\ UNCHANGED <<pc, exc, csv>>
    /\ UNCHANGED <<worldVars, apiVars, wikiVars>>

---------------------------------------------------------------------------
\* The wiki page.  A document is the sequence of its tables; a table has its
\* class tokens and its rows (tr); a row is the sequence of its cells, each
\* with its tag and its get_text(separator=" ", strip=True).

\* the length threshold of parse_launch_table, line 74
TextLimit == 200

Th(t) == [tag |-> "th", text |-> t]
Td(t) == [tag |-> "td", text |-> t]

Text100 == "aaaaaaaaaaaaaaaaaaaaaaaaaaaaaaaaaaaaaaaaaaaaaaaaaaaaaaaaaaaaaaaaaaaaaaaaaaaaaaaaaaaaaaaaaaaaaaaaaaaa"
Text99 == "bbbbbbbbbbbbbbbbbbbbbbbbbbbbbbbbbbbbbbbbbbbbbbbbbbbbbbbbbbbbbbbbbbbbbbbbbbbbbbbbbbbbbbbbbbbbbbbbbbb"

HeaderRowPool ==
    { <<Th("Flight"), Th("Booster"), Th("Notes")>>,
      <<Th("Date"), Td("UTC"), Th("Payload mass")>>,
      <<Th("Notes"), Th("Notes")>>,
      <<Td("Flight")>> }

RowPool ==
    { <<Th("1"), Td("B0003"), Td("0 kg")>>,
      <<Td("2"), Td("B1049")>>,
      <<Td(Text100), Td(Text100)>>,
      <<Td(Text100), Td(Text99)>>,
      <<>>,
      <<Td("4"), Td("B1051"), Td("15600 kg"), Td("note")>> }

Infobox == [class |-> {"infobox"}, rows |-> << <<Th("Falcon 9")>> >>]

WikiTables ==
    { [class |-> {"wikitable", "plainrowheaders"}, rows |-> <<h>> \o body] :
        h \in HeaderRowPool, body \in SeqsUpTo(RowPool, MaxRows) }
    \cup { [class |-> {"wikitable"}, rows |-> <<>>] }

DocPool ==
    { <<>>, <<Infobox>> } \cup { <<t>> : t \in WikiTables }
    \cup { <<Infobox, t>> : t \in WikiTables }

---------------------------------------------------------------------------
\* Falcon9Scraper.parse_launch_table

\* pd.DataFrame(): no columns, no rows
EmptyFrame == [columns |-> <<>>, rows |-> <<>>]
\* DataFrame.empty: any axis of length 0
IsEmptyFrame(df) == df.columns = <<>> \/ df.rows = <<>>

\* line 55: soup.find("table", {"class": "wikitable"}): the first such table
RECURSIVE FindTable(_)
FindTable(doc) ==
    IF doc = <<>> THEN None
    ELSE IF "wikitable" \in doc[1].class THEN Some(doc[1])
    ELSE FindTable(Tail(doc))

\* lines 61-64: the th texts of the first row
HeadersOf(table) ==
    SeqMap(LAMBDA c : c.text, SelectSeq(table.rows[1], LAMBDA c : c.tag = "th"))

\* " ".join(row_text)
RECURSIVE Join(_)
Join(texts) ==
    IF texts = <<>> THEN ""
    ELSE IF Len(texts) = 1 THEN texts[1]
    ELSE texts[1] \o " " \o Join(Tail(texts))

\* line 74
RowRejectedLongOnly(headers, row_text) == Len(Join(row_text)) > TextLimit
RowRejected(headers, row_text) ==
    Len(row_text) < Len(headers) \/ Len(Join(row_text)) > TextLimit

\* lines 77-78: pad with None up to the header count
Pad(headers, row_text) ==
    LET cells == SeqMap(Some, row_text)
    IN  IF Len(cells) < Len(headers)
        THEN cells \o [i \in 1..(Len(headers) - Len(cells)) |-> None]
        ELSE cells

\* line 80: dict(zip(headers, row_text)) as its items in insertion order;
\* zip stops at the shorter argument, a repeated key keeps its first place
\* and takes the last value
RECURSIVE ZipDict(_, _, _)
ZipDict(headers, cells, items) ==
    IF headers = <<>> \/ cells = <<>> THEN items
    ELSE LET k == headers[1]
             at == {i \in 1..Len(items) : items[i][1] = k}
             next == IF at = {}
                     THEN Append(items, <<k, cells[1]>>)
                     ELSE [i \in 1..Len(items) |->
                             IF i \in at THEN <<k, cells[1]>> ELSE items[i]]
         IN  ZipDict(Tail(headers), Tail(cells), next)

\* lines 66-80: the loop over table.find_all("tr")[1:]
RECURSIVE DataRows(_, _)
DataRows(headers, trs) ==
    IF trs = <<>> THEN <<>>
    ELSE LET row_text == SeqMap(LAMBDA c : c.text, trs[1])
             rest == DataRows(headers, Tail(trs))
         IN  IF trs[1] = <<>> THEN rest
             ELSE IF RowRejected(headers, row_text) THEN rest
             ELSE <<ZipDict(headers, Pad(headers, row_text), <<>>)>> \o rest

\* line 82: pd.DataFrame(list of dicts): the columns are the keys in order of
\* first appearance, a key a row lacks is NaN
RECURSIVE FrameColumns(_, _)
FrameColumns(dicts, cols) ==
    IF dicts = <<>> THEN cols
    ELSE LET keys == SeqMap(LAMBDA it : it[1], dicts[1])
             new == SelectSeq(keys, LAMBDA k : \A i \in 1..Len(cols) : cols[i] /= k)
         IN  FrameColumns(Tail(dicts), cols \o new)

DictGet(items, k) ==
    IF \E i \in 1..Len(items) : items[i][1] = k
    THEN items[CHOOSE i \in 1..Len(items) : items[i][1] = k][2]
    ELSE None

FrameOf(dicts) ==
    LET cols == FrameColumns(dicts, <<>>)
    IN  [columns |-> cols,
         rows |-> [r \in 1..Len(dicts) |->
                      [c \in 1..Len(cols) |-> DictGet(dicts[r], cols[c])]]]

\* table.find("tr") is None on a table without rows: AttributeError, line 63
ParseRaises(doc) == FindTable(doc) /= None /\ FindTable(doc)[1].rows = <<>>

\* parse_launch_table, lines 44-83, when it returns
parse_launch_table(doc) ==
    LET table == FindTable(doc)
    IN  IF table = None THEN EmptyFrame
        ELSE FrameOf(DataRows(HeadersOf(table[1]), Tail(table[1].rows)))

---------------------------------------------------------------------------
\* Falcon9Scraper.clean_launch_data

\* lines 99-111
column_mapping ==
    [k \in {"Flight", "Launch site", "Payload", "Payload mass", "Orbit",
            "Customer", "Launch outcome", "Booster", "Booster landing",
            "Date", "Time"} |->
       CASE k = "Flight" -> "Flight No."
         [] k = "Payload mass" -> "PayloadMass"
         [] k = "Booster" -> "Version Booster"
         [] OTHER -> k]

\* lines 113-116: the new name of one column
RenamedNoBooster(c) ==
    IF c \in DOMAIN column_mapping \ {"Booster"} THEN column_mapping[c] ELSE c
Renamed(c) == IF c \in DOMAIN column_mapping THEN column_mapping[c] ELSE c

\* clean_launch_data, lines 85-117
clean_launch_data(df) == [columns |-> SeqMap(Renamed, df.columns), rows |-> df.rows]

---------------------------------------------------------------------------
\* Falcon9Scraper.run

\* run, lines 139-142, with get_html_content, lines 23-42
GetHtmlContent ==
    /\ program = "wiki" /\ pc = "w_start"
    /\ \E ok \in BOOLEAN : html_content' = IF ok THEN Some(page) ELSE None
    /\ IF html_content' = None
       THEN pc' = "w_done" /\ lastlog' = <<"error", "html content">>
       ELSE pc' = "w_fetched" /\ lastlog' = lastlog
    /\ UNCHANGED <<exc, csv, worldVars, apiVars, df_raw, df_clean>>

\* run, line 145
NothingExtracted(df) == IsEmptyFrame(df)

\* run, lines 144-147, with parse_launch_table
ParseLaunchTable ==
    /\ program = "wiki" /\ pc = "w_fetched"
    /\ IF ParseRaises(html_content[1])
       THEN /\ pc' = "raised" /\ exc' = "AttributeError"
            /\ UNCHANGED <<df_raw, lastlog>>
       ELSE /\ df_raw' = Some(parse_launch_table(html_content[1]))
            /\ exc' = exc
            /\ IF NothingExtracted(df_raw'[1])
               THEN pc' = "w_done" /\ lastlog' = <<"error", "no data extracted">>
               ELSE pc' = "w_parsed" /\ lastlog' = lastlog
    /\ UNCHANGED <<csv, worldVars, apiVars, html_content, df_clean>>

\* run, line 149
CleanLaunchData ==
    /\ program = "wiki" /\ pc = "w_parsed"
    /\ df_clean' = Some(clean_launch_data(df_raw[1]))
    /\ pc' = "w_cleaned"
    /\ UNCHANGED <<exc, lastlog, csv, worldVars, apiVars, html_content, df_raw>>

\* run, line 150, with export_data_to_csv, lines 119-133: the write error is
\* caught and logged
ExportDataToCsv ==
    /\ program = "wiki" /\ pc = "w_cleaned"
    /\ \E writable \in BOOLEAN :
         IF writable
         THEN csv' = Some(df_clean[1]) /\ lastlog' = <<"info", "exported">>
         ELSE csv' = csv /\ lastlog' = <<"error", "exporting">>
    /\ pc' = "w_done"
    /\ UNCHANGED <<exc, worldVars, apiVars, wikiVars>>

---------------------------------------------------------------------------
InitApi ==
    /\ program = "api" /\ pc = "idle" /\ exc = "none"
    /\ lastlog = <<"none", "none">> /\ csv = None
    /\ listing \in Listings /\ page = None
    /\ limit_date \in LimitDates
    /\ booster_versions = <<>> /\ payload_masses = <<>> /\ orbits = <<>>
    /\ launch_sites = <<>> /\ outcomes = <<>> /\ flights = <<>>
    /\ grid_fins = <<>> /\ reused_status = <<>> /\ legs = <<>>
    /\ landing_pads = <<>> /\ block_numbers = <<>> /\ reuse_counts = <<>>
    /\ core_serials = <<>> /\ longitudes = <<>> /\ latitudes = <<>>
    /\ raw_data = None /\ processed_data = None
    /\ response = None /\ runs = 0 /\ lookups = 0
    /\ html_content = None /\ df_raw = None /\ df_clean = None

InitWiki ==
    /\ program = "wiki" /\ pc = "w_start" /\ exc = "none"
    /\ lastlog = <<"none", "none">> /\ csv = None
    /\ listing = <<>> /\ page \in DocPool
    /\ limit_date = DefaultLimitDate
    /\ booster_versions = <<>> /\ payload_masses = <<>> /\ orbits = <<>>
    /\ launch_sites = <<>> /\ outcomes = <<>> /\ flights = <<>>
    /\ grid_fins = <<>> /\ reused_status = <<>> /\ legs = <<>>
    /\ landing_pads = <<>> /\ block_numbers = <<>> /\ reuse_counts = <<>>
    /\ core_serials = <<>> /\ longitudes = <<>> /\ latitudes = <<>>
    /\ raw_data = None /\ processed_data = None
    /\ response = None /\ runs = 0 /\ lookups = 0
    /\ html_content = None /\ df_raw = None /\ df_clean = None

Init == InitApi \/ InitWiki

Next ==
    \/ FetchLaunchData
    \/ CheckRawData
    \/ GetBoosterVersionData
    \/ GetLaunchSiteData
    \/ GetPayloadData
    \/ GetCoreData
    \/ CreateDataframe
    \/ ExportToCsv
    \/ GetHtmlContent
    \/ ParseLaunchTable
    \/ CleanLaunchData
    \/ ExportDataToCsv

Spec == Init /\ [][Next]_vars

---------------------------------------------------------------------------
\* Properties

\* the entries of a listing that have one payload, one core and a date not
\* after the cutoff, in listing order
SingleAndDated(resp, limit) ==
    SelectSeq(resp, LAMBDA e : /\ Len(e.payloads) = 1
                               /\ Len(e.cores) = 1
                               /\ e.date_utc.day <= limit)

SameLaunch(r, e) ==
    /\ r.flight_number = e.flight_number
    /\ r.date_utc = e.date_utc
    /\ r.rocket = e.rocket
    /\ r.launchpad = e.launchpad
    /\ r.payloads = e.payloads[1]
    /\ r.cores = e.cores[1]

RawMatches(raw, resp, limit) ==
    LET kept == SingleAndDated(resp, limit)
    IN  /\ Len(raw) = Len(kept)
        /\ \A i \in 1..Len(kept) : SameLaunch(raw[i], kept[i])

\* C1 (as claimed): whenever the primary fetch returned a listing, raw_data
\* holds exactly the single-payload, single-core entries of that listing dated
\* on or before the cutoff, in listing order; for the empty listing that is the
\* empty sequence.
C1_RawDataIsFilteredListing ==
    (program = "api" /\ response /= None) =>
        /\ raw_data /= None
        /\ RawMatches(raw_data[1], response[1], limit_date)

\* C1 (non-empty listings): the same statement for the listings on which
\* fetch_launch_data returns normally.
C1_NonEmptyListingFiltered ==
    (program = "api" /\ response /= None /\ response[1] /= <<>>) =>
        /\ raw_data /= None
        /\ RawMatches(raw_data[1], response[1], limit_date)

\* C1 witness: a listing with an entry dated at the cutoff and one dated the
\* day after was fetched, and only the first is in raw_data.
C1_Witness ==
    /\ program = "api" /\ pc = "fetched" /\ response /= None
    /\ Len(response[1]) = 2
    /\ response[1][1].date_utc.day = limit_date + 1
    /\ response[1][2].date_utc.day = limit_date
    /\ raw_data /= None /\ Len(raw_data[1]) = 1
    /\ raw_data[1][1].date = limit_date

\* the data rows of the located table that have at least one cell
CellRows(doc) ==
    SelectSeq(Tail(FindTable(doc)[1].rows), LAMBDA tr : tr /= <<>>)
TextsOf(tr) == SeqMap(LAMBDA c : c.text, tr)
Parsed ==
    /\ program = "wiki" /\ df_raw /= None
    /\ FindTable(page) /= None

\* C2 (as claimed): every row with cells whose joined text is at most 200
\* characters is in the output (short ones padded), and every longer row is
\* dropped: the output has one row per row of at most 200 characters.
C2_ShortRowsPadded ==
    Parsed =>
        Len(df_raw[1].rows) =
            Len(SelectSeq(CellRows(page),
                          LAMBDA tr : Len(Join(TextsOf(tr))) <= 200))

\* C2 (amended): a row with fewer cells than headers is dropped whatever its
\* text length and is never padded; a row whose joined text is longer than 200
\* characters is dropped whatever its cell count; the output has, in document
\* order, one row per remaining row with cells, and no null cell.
C2_ShortRowsDropped ==
    Parsed =>
        LET headers == HeadersOf(FindTable(page)[1])
            kept == SelectSeq(CellRows(page),
                              LAMBDA tr : /\ Len(tr) >= Len(headers)
                                          /\ Len(Join(TextsOf(tr))) <= 200)
            out == df_raw[1].rows
        IN  /\ Len(out) = Len(kept)
            /\ \A k \in 1..Len(out) :
                 /\ \A c \in 1..Len(out[k]) : out[k][c] /= None
                 /\ headers /= <<>> => out[k][1] \in {Some(kept[k][j].text) :
                          j \in {j \in 1..Len(headers) : headers[j] = headers[1]}}

\* C2 witness: a table was parsed that has a short row of at most 200
\* characters, a row longer than 200 characters and a row that is kept.
C2_Witness ==
    /\ Parsed /\ pc = "w_parsed"
    /\ LET headers == HeadersOf(FindTable(page)[1])
           trs == CellRows(page)
       IN  /\ Len(trs) = 2
           /\ Len(trs[1]) < Len(headers) /\ Len(Join(TextsOf(trs[1]))) <= 200
           /\ Len(trs[2]) >= Len(headers)
           /\ Len(df_raw[1].rows) = 1

\* C3 (as claimed): no write error escapes an export step to its caller, in
\* either pipeline.
C3_NoWriteErrorEscapes == exc /= "OSError"

\* C3 (wiki pipeline only): a failed write in export_data_to_csv is logged
\* and run ends normally.
C3_WikiExportReturns ==
    (program = "wiki" /\ pc = "w_done" /\ df_clean /= None /\ csv = None) =>
        exc = "none" /\ lastlog = <<"error", "exporting">>

\* what a look-up group records for an id: nulls when the id is null or the
\* fetch is Absent, the fetched object's fields otherwise
Fetched(base, id) == IF id = None THEN None ELSE fetch_json(<<base, id[1]>>)
Field(resp, f) == IF resp = None THEN None ELSE resp[1][f]

FreshlyEnriched == program = "api" /\ runs = 1 /\ pc = "assemble"

\* C4: after the four look-up loops of the first run, every accumulator has
\* one entry per raw_data record; for each record and each group the group's
\* fields are null if the id is null or the fetch Absent and are the fetched
\* values otherwise, whatever happened to the other groups and records; and
\* no exception has escaped.
C4_FailedLookupsYieldNulls ==
    FreshlyEnriched =>
        LET raw == raw_data[1] IN
        /\ exc = "none"
        /\ AccLengths = {Len(raw)}
        /\ \A i \in 1..Len(raw) :
             LET rocket == Fetched(ROCKETS_URL, raw[i].rocket)
                 site == Fetched(LAUNCHPADS_URL, raw[i].launchpad)
                 payload == Fetched(PAYLOADS_URL, raw[i].payloads)
                 core == Fetched(CORES_URL, raw[i].cores.core)
             IN  /\ booster_versions[i] = Field(rocket, "name")
                 /\ launch_sites[i] = Field(site, "name")
                 /\ longitudes[i] = Field(site, "longitude")
                 /\ latitudes[i] = Field(site, "latitude")
                 /\ payload_masses[i] = Field(payload, "mass_kg")
                 /\ orbits[i] = Field(payload, "orbit")
                 /\ block_numbers[i] = Field(core, "block")
                 /\ reuse_counts[i] = Field(core, "reuse_count")
                 /\ core_serials[i] = Field(core, "serial")

\* C4 witness: two records were enriched, the first with a null rocket id and
\* the second with a stale rocket id and a valid core id: both booster names
\* are null, the second record's core serial is not.
C4_Witness ==
    /\ FreshlyEnriched
    /\ Len(raw_data[1]) = 2
    /\ raw_data[1][1].rocket = None
    /\ raw_data[1][2].rocket = Some("retired")
    /\ booster_versions = <<None, None>>
    /\ core_serials[2] = Some("B0003")
    /\ launch_sites[2] /= None
    /\ orbits[2] = None

\* the wiki table has no data row that passes the row filter
NoRowSurvives(doc) ==
    LET headers == HeadersOf(FindTable(doc)[1])
    IN  \A k \in 1..Len(CellRows(doc)) :
          LET tr == CellRows(doc)[k]
          IN  Len(tr) < Len(headers) \/ Len(Join(TextsOf(tr))) > 200

\* C5: a halted pipeline writes nothing.  API pipeline, first run of a fresh
\* extractor: if the primary fetch was Absent or raw_data is empty, no
\* dependent look-up was made, processed_data is not assembled and no file is
\* written.  Wiki pipeline: if the page fetch was Absent, no wikitable exists
\* or no row survives the filter, neither the rename nor the export has run.
C5_HaltedPipelineWritesNothing ==
    /\ (program = "api" /\ runs <= 1
          /\ (response = None \/ raw_data = None \/ raw_data[1] = <<>>)) =>
         /\ lookups = 0 /\ processed_data = None /\ csv = None
         /\ pc \in {"idle", "fetched", "raised"}
    /\ (program = "wiki"
          /\ \/ html_content = None
             \/ FindTable(page) = None
             \/ FindTable(page)[1].rows = <<>>
             \/ NoRowSurvives(page)) =>
         /\ df_clean = None /\ csv = None
         /\ pc \in {"w_start", "w_fetched", "w_done", "raised"}

\* C5 witness: on the first run the normalized raw_data was empty, the run
\* halted, export_to_csv was then called and wrote nothing.
C5_Witness ==
    /\ program = "api" /\ runs = 1 /\ pc = "idle"
    /\ response /= None /\ raw_data = Some(<<>>)
    /\ lastlog = <<"error", "no processed data">>
    /\ csv = None

\* C5 witness (wiki): the table was found, no row survived, run halted.
C5_WitnessWiki ==
    /\ program = "wiki" /\ pc = "w_done" /\ html_content /= None
    /\ FindTable(page) /= None /\ Len(FindTable(page)[1].rows) = 3
    /\ NoRowSurvives(page) /\ df_raw /= None /\ csv = None

JustAssembled == program = "api" /\ pc = "idle" /\ processed_data /= None

\* C6: after final assembly processed_data has no row whose BoosterVersion is
\* "Falcon 1" and has one row for every enriched record with any other booster
\* name, a null one included.
C6_Falcon1Filtered ==
    JustAssembled =>
        LET others == {i \in 1..Len(raw_data[1]) :
                          booster_versions[i] /= Some("Falcon 1")}
            rows == processed_data[1]
        IN  /\ \A k \in 1..Len(rows) : rows[k].BoosterVersion /= Some("Falcon 1")
            /\ Len(rows) = Cardinality(others)
            /\ \A i \in others : \E k \in 1..Len(rows) :
                 /\ rows[k].FlightNumber = raw_data[1][i].flight_number
                 /\ rows[k].BoosterVersion = booster_versions[i]

\* C6 witness: a Falcon 1 record and a record with a null booster name were
\* assembled; only the second is in processed_data.
C6_Witness ==
    /\ JustAssembled
    /\ booster_versions = <<Some("Falcon 1"), None>>
    /\ Len(processed_data[1]) = 1
    /\ processed_data[1][1].BoosterVersion = None

\* the row the i-th raw_data record must give
ExpectedRow(r) ==
    LET rocket == Fetched(ROCKETS_URL, r.rocket)
        site == Fetched(LAUNCHPADS_URL, r.launchpad)
        payload == Fetched(PAYLOADS_URL, r.payloads)
        core == Fetched(CORES_URL, r.cores.core)
    IN  [FlightNumber |-> r.flight_number,
         Date |-> r.date_utc,
         BoosterVersion |-> Field(rocket, "name"),
         PayloadMass |-> Field(payload, "mass_kg"),
         Orbit |-> Field(payload, "orbit"),
         LaunchSite |-> Field(site, "name"),
         Outcome |-> (IF r.cores.landing_success = None THEN "None"
                      ELSE IF r.cores.landing_success[1] THEN "True" ELSE "False")
                     \o " " \o
                     (IF r.cores.landing_type = None THEN "None"
                      ELSE r.cores.landing_type[1]),
         Flights |-> r.cores.flight,
         GridFins |-> r.cores.gridfins,
         Reused |-> r.cores.reused,
         Legs |-> r.cores.legs,
         LandingPad |-> r.cores.landpad,
         Block |-> Field(core, "block"),
         ReusedCount |-> Field(core, "reuse_count"),
         Serial |-> Field(core, "serial"),
         Longitude |-> Field(site, "longitude"),
         Latitude |-> Field(site, "latitude")]

\* C7: on the first run of a fresh extractor the i-th assembled row takes all
\* its fields from the i-th raw_data record and the look-ups keyed by that
\* record's ids, and processed_data is those rows, in that order, without the
\* Falcon 1 rows.
C7_RowsAlignedWithRecords ==
    /\ FreshlyEnriched =>
         \A i \in 1..Len(raw_data[1]) : LaunchRow(i) = ExpectedRow(raw_data[1][i])
    /\ (JustAssembled /\ runs = 1) =>
         processed_data[1] =
            SelectSeq(SeqMap(ExpectedRow, raw_data[1]),
                      LAMBDA row : row.BoosterVersion /= Some("Falcon 1"))

\* C7 witness: two different records, neither a Falcon 1, were enriched and
\* assembled on the first run.
C7_Witness ==
    /\ JustAssembled /\ runs = 1
    /\ Len(processed_data[1]) = 2
    /\ processed_data[1][1].FlightNumber = 9
    /\ processed_data[1][2].FlightNumber = 2
    /\ processed_data[1][1].Outcome = "False Ocean"
    /\ processed_data[1][2].Outcome = "True ASDS"

\* the column rename mapping, as pairs <<scraped header, output column>>
RenamePairs ==
    { <<"Flight", "Flight No.">>, <<"Launch site", "Launch site">>,
      <<"Payload", "Payload">>, <<"Payload mass", "PayloadMass">>,
      <<"Orbit", "Orbit">>, <<"Customer", "Customer">>,
      <<"Launch outcome", "Launch outcome">>, <<"Booster", "Version Booster">>,
      <<"Booster landing", "Booster landing">>, <<"Date", "Date">>,
      <<"Time", "Time">> }

\* C8: clean_launch_data renames every column that is a key of the mapping to
\* its mapped name, leaves every other column name as it is, and changes
\* neither the column order, the number of rows nor any cell.
C8_PureRename ==
    (program = "wiki" /\ df_clean /= None) =>
        LET old == df_raw[1]
            new == df_clean[1]
        IN  /\ Len(new.columns) = Len(old.columns)
            /\ \A i \in 1..Len(old.columns) :
                 IF \E p \in RenamePairs : p[1] = old.columns[i]
                 THEN <<old.columns[i], new.columns[i]>> \in RenamePairs
                 ELSE new.columns[i] = old.columns[i]
            /\ new.rows = old.rows

\* C8 witness: a table with the headers "Booster" and "Notes" was cleaned:
\* "Booster" became "Version Booster" and "Notes" stayed.
C8_Witness ==
    /\ program = "wiki" /\ df_clean /= None
    /\ df_raw[1].columns = <<"Flight", "Booster", "Notes">>
    /\ df_clean[1].columns = <<"Flight No.", "Version Booster", "Notes">>
    /\ Len(df_clean[1].rows) = 2

\* C9 (as claimed): whenever _create_dataframe runs, each of the fifteen
\* accumulator lists is as long as raw_data, on any process_all_data call.
C9_AccumulatorsMatchRawData ==
    (program = "api" /\ pc = "assemble") => AccLengths = {Len(raw_data[1])}

\* C9 (first call only): the lengths agree when _create_dataframe runs in the
\* first process_all_data call of an instance.
C9_FirstRunLengthsAgree ==
    (program = "api" /\ pc = "assemble" /\ runs = 1) =>
        AccLengths = {Len(raw_data[1])}

\* C10: a fetch_launch_data call whose primary fetch is Absent changes neither
\* raw_data, processed_data nor any accumulator list.
C10_AbsentFetchChangesNothing ==
    [][(program = "api" /\ pc = "idle" /\ pc' = "fetched" /\ response' = None)
         => (raw_data' = raw_data /\ processed_data' = processed_data
             /\ accVars' = accVars)]_vars

\* C10 witness: the second call's primary fetch was Absent on an instance that
\* had completed a run; raw_data and processed_data are still that run's.
C10_Witness ==
    /\ program = "api" /\ pc = "fetched" /\ runs = 2 /\ response = None
    /\ raw_data /= None /\ Len(raw_data[1]) = 2
    /\ processed_data /= None /\ Len(processed_data[1]) = 2

===========================================================================
